---- MODULE Spec2Model ----
(***************************************************************************)
(* Model of core/src/unprocessed_packet_batches.rs: the bounded priority   *)
(* buffer UnprocessedPacketBatches (a MinMaxHeap of shared immutable       *)
(* records plus a HashMap message_hash -> DeserializedPacket).             *)
(*                                                                         *)
(* The MinMaxHeap is modelled as a bag (multiset) of records: its array    *)
(* layout is internal to the min_max_heap crate, and which of several      *)
(* equal elements pop_max / push_pop_min removes is a nondeterministic     *)
(* choice.  Every operation is an operator from a buffer value to the set  *)
(* of its possible outcomes; an action applies one operator to the         *)
(* variables and records the call and its return value in `last`, the      *)
(* state before the call in `pre`.  Return models the caller taking the    *)
(* returned value, after which the next operation may be called.           *)
(***************************************************************************)
EXTENDS Integers, Sequences, FiniteSets, Bags, TLC

\* ------------------------------------------------------------- bounds
MaxHash == 3        \* distinct message hashes
MaxPriority == 1    \* priorities 0..MaxPriority
MaxStake == 1       \* sender stakes 0..MaxStake
MaxCap == 2         \* capacities 0..MaxCap
MaxBatch == 2       \* longest iterator given to insert_batch / from_iter
MaxN == 2           \* largest n given to pop_max_n

MaxDataLen == 66
MaxInstructions == 2
MaxPackets == 2
MaxIndexes == 3

\* ------------------------------------------------------------- data
Hash == 1..MaxHash

ImmutableDeserializedPacket ==
    [message_hash : Hash, priority : 0..MaxPriority, sender_stake : 0..MaxStake]

DeserializedPacket ==
    [immutable_section : ImmutableDeserializedPacket, forwarded : BOOLEAN]

\* Option<T> as a sequence of length at most one.
None == << >>
Some(x) == << x >>

\* Mutant: the order ignores the sender stake.
cmp_ignores_stake(a, b) ==
    IF a.priority < b.priority THEN -1
    ELSE IF a.priority > b.priority THEN 1
    ELSE 0

\* impl Ord for ImmutableDeserializedPacket: -1 Less, 0 Equal, 1 Greater.
cmp(a, b) ==
    IF a.priority < b.priority THEN -1
    ELSE IF a.priority > b.priority THEN 1
    ELSE IF a.sender_stake < b.sender_stake THEN -1
    ELSE IF a.sender_stake > b.sender_stake THEN 1
    ELSE 0

\* ------------------------------------------------------------- HashMap
EmptyMap == << >>

contains_key(m, k) == k \in DOMAIN m

map_insert(m, k, v) == [h \in DOMAIN m \cup {k} |-> IF h = k THEN v ELSE m[h]]

map_remove(m, k) == [h \in DOMAIN m \ {k} |-> m[h]]

\* ------------------------------------------------------------- MinMaxHeap
\* A heap value: the bag of its elements and the capacity of its allocation.
\* An allocation of at least k slots gets any capacity in k..MaxAlloc.
MaxAlloc == MaxCap + 1

Heap(data, cap) == [data |-> data, capacity |-> cap]

heap_with_capacity(cap) == {Heap(EmptyBag, k) : k \in cap..MaxAlloc}

heap_len(q) == BagCardinality(q.data)

heap_capacity(q) == q.capacity

\* push: grows the allocation when it is full.
heap_push(q, r) ==
    {Heap(q.data (+) SetToBag({r}), k)
     : k \in IF heap_len(q) = q.capacity THEN (heap_len(q) + 1)..MaxAlloc
                                         ELSE {q.capacity}}

heap_remove(q, r) == Heap(q.data (-) SetToBag({r}), q.capacity)

heap_clear(q) == Heap(EmptyBag, q.capacity)

\* collect(): a new heap, allocated as the elements arrive; one that
\* receives no element allocates nothing.
heap_collect(data) ==
    IF data = EmptyBag THEN {Heap(EmptyBag, 0)}
    ELSE {Heap(data, k) : k \in BagCardinality(data)..MaxAlloc}

\* The elements pop_max may return: those no element is greater than.
heap_max(q) == {r \in BagToSet(q.data) : \A s \in BagToSet(q.data) : cmp(s, r) <= 0}

\* The elements the min side may hold at its root.
heap_min(q) == {r \in BagToSet(q.data) : \A s \in BagToSet(q.data) : cmp(r, s) <= 0}

\* MinMaxHeap::push_pop_min: the element replaces the minimum only when it
\* is strictly greater; otherwise (and on an empty heap) it is handed back.
heap_push_pop_min(q, x) ==
    IF heap_len(q) = 0 THEN {[heap |-> q, popped |-> x]}
    ELSE {IF cmp(x, mn) > 0
            THEN [heap |-> Heap((q.data (-) SetToBag({mn})) (+) SetToBag({x}), q.capacity),
                  popped |-> mn]
            ELSE [heap |-> q, popped |-> x] : mn \in heap_min(q)}

\* ------------------------------------------------------------- the buffer
\* A buffer value; the variables below hold its fields.
Buffer(q, m, limit) ==
    [packet_priority_queue |-> q, message_hash_to_transaction |-> m,
     batch_limit |-> limit]

with_capacity(cap) ==
    {Buffer(q, EmptyMap, cap) : q \in heap_with_capacity(cap)}

len(b) == heap_len(b.packet_priority_queue)

is_empty(b) == heap_len(b.packet_priority_queue) = 0

capacity(b) == heap_capacity(b.packet_priority_queue)

\* The outcome of an operation: the buffer afterwards, the returned
\* Option<DeserializedPacket>, and whether the operation panicked.
Outcome(b, ret, panic) == [buf |-> b, ret |-> ret, panicked |-> panic]

push_internal(b, deserialized_packet) ==
    {Buffer(q,
            map_insert(b.message_hash_to_transaction,
                       deserialized_packet.immutable_section.message_hash,
                       deserialized_packet),
            b.batch_limit)
     : q \in heap_push(b.packet_priority_queue, deserialized_packet.immutable_section)}

\* Mutant: after an eviction the incoming envelope is returned, not the
\* removed minimum.
push_pop_min_returns_incoming(b, deserialized_packet) ==
    {LET popped == o.popped
         hash == deserialized_packet.immutable_section.message_hash
         m == b.message_hash_to_transaction
     IN  IF popped.message_hash # hash
           THEN Outcome(Buffer(o.heap,
                               map_insert(map_remove(m, popped.message_hash),
                                          hash, deserialized_packet),
                               b.batch_limit),
                        Some(deserialized_packet), FALSE)
           ELSE Outcome(Buffer(o.heap, m, b.batch_limit),
                        Some(deserialized_packet), FALSE)
     : o \in heap_push_pop_min(b.packet_priority_queue,
                               deserialized_packet.immutable_section)}

\* Mutant: the evicted minimum is returned but its index entry is left behind.
push_pop_min_keeps_evicted(b, deserialized_packet) ==
    {LET popped == o.popped
         hash == deserialized_packet.immutable_section.message_hash
         m == b.message_hash_to_transaction
     IN  IF popped.message_hash # hash
           THEN Outcome(Buffer(o.heap, map_insert(m, hash, deserialized_packet),
                               b.batch_limit),
                        Some(m[popped.message_hash]), FALSE)
           ELSE Outcome(Buffer(o.heap, m, b.batch_limit),
                        Some(deserialized_packet), FALSE)
     : o \in heap_push_pop_min(b.packet_priority_queue,
                               deserialized_packet.immutable_section)}

\* Mutant: a full buffer hands every incoming envelope back.
push_pop_min_never_evicts(b, deserialized_packet) ==
    {Outcome(b, Some(deserialized_packet), FALSE)}

\* Mutant: an incoming envelope that is handed back is entered in the index
\* all the same.
push_pop_min_indexes_incoming(b, deserialized_packet) ==
    {LET popped == o.popped
         hash == deserialized_packet.immutable_section.message_hash
         m == b.message_hash_to_transaction
     IN  IF popped.message_hash # hash
           THEN Outcome(Buffer(o.heap,
                               map_insert(map_remove(m, popped.message_hash),
                                          hash, deserialized_packet),
                               b.batch_limit),
                        Some(m[popped.message_hash]), FALSE)
           ELSE Outcome(Buffer(o.heap, map_insert(m, hash, deserialized_packet),
                               b.batch_limit),
                        Some(deserialized_packet), FALSE)
     : o \in heap_push_pop_min(b.packet_priority_queue,
                               deserialized_packet.immutable_section)}

push_pop_min(b, deserialized_packet) ==
    {LET popped == o.popped
         hash == deserialized_packet.immutable_section.message_hash
         m == b.message_hash_to_transaction
     IN  IF popped.message_hash # hash
           THEN IF contains_key(m, popped.message_hash)
                  THEN Outcome(Buffer(o.heap,
                                      map_insert(map_remove(m, popped.message_hash),
                                                 hash, deserialized_packet),
                                      b.batch_limit),
                               Some(m[popped.message_hash]), FALSE)
                  \* remove(..).unwrap() on a missing entry
                  ELSE Outcome(Buffer(o.heap, m, b.batch_limit), None, TRUE)
           ELSE Outcome(Buffer(o.heap, m, b.batch_limit),
                        Some(deserialized_packet), FALSE)
     : o \in heap_push_pop_min(b.packet_priority_queue,
                               deserialized_packet.immutable_section)}

\* Mutant: a duplicate replaces the resident envelope (the last arrival wins).
push_replaces_duplicate(b, deserialized_packet) ==
    IF contains_key(b.message_hash_to_transaction,
                    deserialized_packet.immutable_section.message_hash)
      THEN {Outcome(Buffer(b.packet_priority_queue,
                           map_insert(b.message_hash_to_transaction,
                                      deserialized_packet.immutable_section.message_hash,
                                      deserialized_packet),
                           b.batch_limit), None, FALSE)}
      ELSE IF len(b) = b.batch_limit
             THEN push_pop_min(b, deserialized_packet)
             ELSE {Outcome(nb, None, FALSE) : nb \in push_internal(b, deserialized_packet)}

\* Mutant: the buffer counts as full one envelope early.
push_full_one_early(b, deserialized_packet) ==
    IF contains_key(b.message_hash_to_transaction,
                    deserialized_packet.immutable_section.message_hash)
      THEN {Outcome(b, None, FALSE)}
      ELSE IF len(b) + 1 >= b.batch_limit
             THEN push_pop_min(b, deserialized_packet)
             ELSE {Outcome(nb, None, FALSE) : nb \in push_internal(b, deserialized_packet)}

\* Mutant: full is decided by the heap's allocated capacity, not batch_limit.
push_full_by_capacity(b, deserialized_packet) ==
    IF contains_key(b.message_hash_to_transaction,
                    deserialized_packet.immutable_section.message_hash)
      THEN {Outcome(b, None, FALSE)}
      ELSE IF len(b) = capacity(b)
             THEN push_pop_min(b, deserialized_packet)
             ELSE {Outcome(nb, None, FALSE) : nb \in push_internal(b, deserialized_packet)}

\* Mutant: an empty buffer always has room for one envelope.
push_room_when_empty(b, deserialized_packet) ==
    IF contains_key(b.message_hash_to_transaction,
                    deserialized_packet.immutable_section.message_hash)
      THEN {Outcome(b, None, FALSE)}
      ELSE IF len(b) = b.batch_limit /\ ~is_empty(b)
             THEN push_pop_min(b, deserialized_packet)
             ELSE {Outcome(nb, None, FALSE) : nb \in push_internal(b, deserialized_packet)}

\* Mutant: push does not look the hash up in the index first.
push_without_lookup(b, deserialized_packet) ==
    IF len(b) = b.batch_limit
      THEN push_pop_min(b, deserialized_packet)
      ELSE {Outcome(nb, None, FALSE) : nb \in push_internal(b, deserialized_packet)}

push(b, deserialized_packet) ==
    IF contains_key(b.message_hash_to_transaction,
                    deserialized_packet.immutable_section.message_hash)
      THEN {Outcome(b, None, FALSE)}
      ELSE IF len(b) = b.batch_limit
             THEN push_pop_min(b, deserialized_packet)
             ELSE {Outcome(nb, None, FALSE) : nb \in push_internal(b, deserialized_packet)}

\* Mutant: the minimum is popped.
pop_max_pops_min(b) ==
    IF is_empty(b) THEN {Outcome(b, None, FALSE)}
    ELSE {LET q == heap_remove(b.packet_priority_queue, r)
              m == b.message_hash_to_transaction
          IN  IF contains_key(m, r.message_hash)
                THEN Outcome(Buffer(q, map_remove(m, r.message_hash), b.batch_limit),
                             Some(m[r.message_hash]), FALSE)
                ELSE Outcome(Buffer(q, m, b.batch_limit), None, TRUE)
          : r \in heap_min(b.packet_priority_queue)}

\* Mutant: pop_max returns the maximum's envelope and leaves its index entry.
pop_max_keeps_entry(b) ==
    IF is_empty(b) THEN {Outcome(b, None, FALSE)}
    ELSE {LET q == heap_remove(b.packet_priority_queue, r)
              m == b.message_hash_to_transaction
          IN  IF contains_key(m, r.message_hash)
                THEN Outcome(Buffer(q, m, b.batch_limit), Some(m[r.message_hash]), FALSE)
                ELSE Outcome(Buffer(q, m, b.batch_limit), None, TRUE)
          : r \in heap_max(b.packet_priority_queue)}

pop_max(b) ==
    IF is_empty(b) THEN {Outcome(b, None, FALSE)}
    ELSE {LET q == heap_remove(b.packet_priority_queue, r)
              m == b.message_hash_to_transaction
          IN  IF contains_key(m, r.message_hash)
                THEN Outcome(Buffer(q, map_remove(m, r.message_hash), b.batch_limit),
                             Some(m[r.message_hash]), FALSE)
                \* remove(..).unwrap() on a missing entry
                ELSE Outcome(Buffer(q, m, b.batch_limit), None, TRUE)
          : r \in heap_max(b.packet_priority_queue)}

\* Mutant: clear empties the heap and leaves the index as it is.
clear_keeps_index(b) ==
    Buffer(heap_clear(b.packet_priority_queue), b.message_hash_to_transaction,
           b.batch_limit)

clear(b) == Buffer(heap_clear(b.packet_priority_queue), EmptyMap, b.batch_limit)

\* pop_max().unwrap() repeated k times, collected into a Vec.
RECURSIVE pop_max_unwrap_take(_, _)
pop_max_unwrap_take(b, k) ==
    IF k = 0 THEN {[buf |-> b, vec |-> << >>, panicked |-> FALSE]}
    ELSE UNION {IF o.panicked \/ o.ret = None
                  \* unwrap() of None
                  THEN {[buf |-> o.buf, vec |-> << >>, panicked |-> TRUE]}
                  ELSE {[r EXCEPT !.vec = o.ret \o r.vec]
                        : r \in pop_max_unwrap_take(o.buf, k - 1)}
                : o \in pop_max(b)}

Min(a, b) == IF a <= b THEN a ELSE b

\* Mutant: n envelopes are popped, however few are resident.
pop_max_n_without_min(b, n) ==
    IF is_empty(b)
      THEN {[buf |-> b, some |-> FALSE, vec |-> << >>, panicked |-> FALSE]}
      ELSE {[buf |-> o.buf, some |-> ~o.panicked, vec |-> o.vec, panicked |-> o.panicked]
            : o \in pop_max_unwrap_take(b, n)}

\* Outcomes carry `some`: whether Some(vec) or None is returned.
pop_max_n(b, n) ==
    LET current_len == len(b) IN
    IF is_empty(b)
      THEN {[buf |-> b, some |-> FALSE, vec |-> << >>, panicked |-> FALSE]}
      ELSE LET num_to_pop == Min(current_len, n) IN
           {[buf |-> o.buf, some |-> ~o.panicked, vec |-> o.vec, panicked |-> o.panicked]
            : o \in pop_max_unwrap_take(b, num_to_pop)}

\* What a predicate given to retain may do to one envelope: answer keep or
\* drop, and leave `forwarded` at the value it chooses.
Decision == [keep : BOOLEAN, forwarded : BOOLEAN]

\* Mutant: an entry the predicate rejected stays in the index.
retain_entry_never_removes(m, hash, entry, should_retain) ==
    map_insert(m, hash, entry)

\* Mutant: the predicate's change to an entry it retains is not stored.
retain_entry_discards_change(m, hash, entry, should_retain) ==
    IF should_retain THEN m ELSE map_remove(m, hash)

\* Entry::Occupied in retain: the entry, as the predicate left it, stays when
\* it answered true and is removed when it answered false.
retain_entry(m, hash, entry, should_retain) ==
    IF should_retain THEN map_insert(m, hash, entry) ELSE map_remove(m, hash)

\* The drain-and-filter loop of retain.  data is what is left to drain, m the
\* index, kept the records collected so far, calls the bag of envelopes the
\* predicate has been called on (as they were before the call).
RECURSIVE retain_filter(_, _, _, _, _)
retain_filter(data, m, f, kept, calls) ==
    IF data = EmptyBag
      THEN [kept |-> kept, map |-> m, calls |-> calls, panicked |-> FALSE]
      ELSE LET immutable_packet == CHOOSE x \in BagToSet(data) : TRUE
               hash == immutable_packet.message_hash
           IN  IF ~contains_key(m, hash)
                 \* Entry::Vacant: panic!
                 THEN [kept |-> kept, map |-> m, calls |-> calls, panicked |-> TRUE]
                 ELSE LET should_retain == f[hash].keep
                          entry == [m[hash] EXCEPT !.forwarded = f[hash].forwarded]
                      IN  retain_filter(data (-) SetToBag({immutable_packet}),
                                        retain_entry(m, hash, entry, should_retain),
                                        f,
                                        IF should_retain
                                          THEN kept (+) SetToBag({immutable_packet})
                                          ELSE kept,
                                        calls (+) SetToBag({m[hash]}))

retain(b, f) ==
    LET o == retain_filter(b.packet_priority_queue.data, b.message_hash_to_transaction,
                           f, EmptyBag, EmptyBag)
    IN  IF o.panicked
          \* the heap was being drained and is left empty
          THEN {[buf |-> Buffer(heap_clear(b.packet_priority_queue), o.map, b.batch_limit),
                 calls |-> o.calls, panicked |-> TRUE]}
          ELSE {[buf |-> Buffer(q, o.map, b.batch_limit), calls |-> o.calls,
                 panicked |-> FALSE] : q \in heap_collect(o.kept)}

\* Mutant: the pushes that returned None are counted.
dropped_counts_none(ret) == IF ret = None THEN 1 ELSE 0

\* What one push adds to num_dropped_packets.
dropped(ret) == IF ret # None THEN 1 ELSE 0

RECURSIVE insert_batch(_, _)
insert_batch(b, deserialized_packets) ==
    IF deserialized_packets = << >>
      THEN {[buf |-> b, num_dropped_packets |-> 0, panicked |-> FALSE]}
      ELSE UNION {IF o.panicked
                    THEN {[buf |-> o.buf, num_dropped_packets |-> 0, panicked |-> TRUE]}
                    ELSE {[r EXCEPT !.num_dropped_packets =
                                      @ + dropped(o.ret)]
                          : r \in insert_batch(o.buf, Tail(deserialized_packets))}
                  : o \in push(b, Head(deserialized_packets))}

RECURSIVE push_each(_, _)
push_each(b, iter) ==
    IF iter = << >> THEN {[buf |-> b, panicked |-> FALSE]}
    ELSE UNION {IF o.panicked THEN {[buf |-> o.buf, panicked |-> TRUE]}
                ELSE push_each(o.buf, Tail(iter))
                : o \in push(b, Head(iter))}

\* Mutant: from_iter stops taking elements once the buffer is full.
from_iter_takes_capacity(iter, cap) ==
    UNION {push_each(b, SubSeq(iter, 1, Min(cap, Len(iter)))) : b \in with_capacity(cap)}

from_iter(iter, cap) ==
    UNION {push_each(b, iter) : b \in with_capacity(cap)}

\* iter_mut: the caller visits every resident envelope through a mutable
\* reference and leaves its forwarded flag at g[hash].
iter_mut(b, g) ==
    Buffer(b.packet_priority_queue,
           [h \in DOMAIN b.message_hash_to_transaction |->
               [b.message_hash_to_transaction[h] EXCEPT !.forwarded = g[h]]],
           b.batch_limit)

\* The iterators given to insert_batch and from_iter.
Batches == UNION {[1..k -> DeserializedPacket] : k \in 0..MaxBatch}

\* ------------------------------------------------------------- packets
\* The bytes of a packet: packet.data() is len bytes long and begins with
\* the bytes of head, the first MAX_ENCODING_LENGTH of them (all of them
\* when it is shorter); no function modelled here reads the bytes behind.
MAX_ENCODING_LENGTH == 3

U16_MAX == 65535

\* The integers the model can hold end below usize::MAX; no product or sum
\* of packet_message comes near either.
usize_MAX == 2147483647

\* size_of::<Signature>()
SIGNATURE_BYTES == 64

SampleBytes == {0, 1, 4, 128, 255}

PacketData ==
    UNION {[head : [1..Min(n, MAX_ENCODING_LENGTH) -> SampleBytes], len : {n}]
           : n \in 0..MaxDataLen}

Ok(v) == [ok |-> TRUE, value |-> v, error |-> << >>]

Err(e) == [ok |-> FALSE, value |-> << >>, error |-> e]

\* short_vec::decode_shortu16_len: 7 bits a byte, least significant first,
\* the high bit says another byte follows; at most MAX_ENCODING_LENGTH
\* bytes and a value of 16 bits.  Ok(<<value, bytes read>>) or Err.
RECURSIVE visit_bytes(_, _, _)
visit_bytes(bytes, nth_byte, val) ==
    IF nth_byte >= Len(bytes) \/ nth_byte >= MAX_ENCODING_LENGTH THEN Err(<< >>)
    ELSE LET elem == bytes[nth_byte + 1]
             elem_done == elem < 128
             new_val == val + (elem % 128) * 128 ^ nth_byte
         IN  IF nth_byte = MAX_ENCODING_LENGTH - 1 /\ ~elem_done THEN Err(<< >>)
             ELSE IF new_val > U16_MAX THEN Err(<< >>)
             ELSE IF elem_done THEN Ok(<< new_val, nth_byte + 1 >>)
             ELSE visit_bytes(bytes, nth_byte + 1, new_val)

decode_shortu16_len(bytes) == visit_bytes(bytes, 0, 0)

checked_mul(a, b) == IF a * b <= usize_MAX THEN Some(a * b) ELSE None

checked_add(a, b) == IF a + b <= usize_MAX THEN Some(a + b) ELSE None

\* data.get(start..): the slice from start to the end, None when start is
\* behind the end.
slice_get_from(data, start) ==
    IF start <= data.len THEN Some([start |-> start, end |-> data.len]) ELSE None

DeserializedPacketError(kind, size) == [kind |-> kind, size |-> size]

\* Mutant: the length of the prefix is not added to the offset.
packet_message_without_prefix(packet) ==
    LET decoded == decode_shortu16_len(packet.data.head)
    IN  IF ~decoded.ok THEN Err(DeserializedPacketError("ShortVecError", 0))
        ELSE LET sig_len == decoded.value[1]
                 sig_size == decoded.value[2]
                 v == checked_mul(sig_len, SIGNATURE_BYTES)
                 message == IF v = None THEN None
                            ELSE slice_get_from(packet.data, v[1])
             IN  IF message = None
                   THEN Err(DeserializedPacketError("SignatureOverflowed", sig_size))
                   ELSE Ok(message[1])

packet_message(packet) ==
    LET decoded == decode_shortu16_len(packet.data.head)
    IN  IF ~decoded.ok THEN Err(DeserializedPacketError("ShortVecError", 0))
        ELSE LET sig_len == decoded.value[1]
                 sig_size == decoded.value[2]
                 \* the and_then chain: None passes through
                 v == checked_mul(sig_len, SIGNATURE_BYTES)
                 msg_start == IF v = None THEN None ELSE checked_add(v[1], sig_size)
                 message == IF msg_start = None THEN None
                            ELSE slice_get_from(packet.data, msg_start[1])
             IN  IF message = None
                   THEN Err(DeserializedPacketError("SignatureOverflowed", sig_size))
                   ELSE Ok(message[1])

\* ------------------------------------------------------------- priority
\* The instructions of a message, as compute-budget processing sees them:
\* the three directives with their argument, and any other instruction.
MICRO_LAMPORTS_PER_LAMPORT == 1000000

DEFAULT_UNITS == 200000

MIN_HEAP_FRAME_BYTES == 32768

MAX_HEAP_FRAME_BYTES == 262144

HEAP_FRAME_ALIGNMENT == 1024

Instruction(kind, value) == [kind |-> kind, value |-> value]

SampleInstructions ==
    {Instruction("SetComputeUnitLimit", 2),
     Instruction("SetComputeUnitPrice", MICRO_LAMPORTS_PER_LAMPORT),
     Instruction("RequestHeapFrame", MIN_HEAP_FRAME_BYTES),
     Instruction("RequestHeapFrame", MIN_HEAP_FRAME_BYTES + 1),
     Instruction("Other", 0)}

Messages == UNION {[1..k -> SampleInstructions] : k \in 0..MaxInstructions}

\* The arguments of the directives of one kind, in order.
directives(instructions, kind) ==
    SelectSeq(instructions, LAMBDA i : i.kind = kind)

heap_frame_valid(bytes) ==
    /\ bytes >= MIN_HEAP_FRAME_BYTES /\ bytes <= MAX_HEAP_FRAME_BYTES
    /\ bytes % HEAP_FRAME_ALIGNMENT = 0

\* floor(price * units / MICRO_LAMPORTS_PER_LAMPORT), the product taken in
\* two parts.
prioritization(price, units) ==
    (price \div MICRO_LAMPORTS_PER_LAMPORT) * units
      + ((price % MICRO_LAMPORTS_PER_LAMPORT) * units) \div MICRO_LAMPORTS_PER_LAMPORT

\* ComputeBudget::process_instructions: a directive given twice or a heap
\* frame out of bounds or misaligned fails; otherwise the priority follows
\* from the price (0 without a price directive) and the unit limit.
process_instructions(instructions) ==
    LET limits == directives(instructions, "SetComputeUnitLimit")
        prices == directives(instructions, "SetComputeUnitPrice")
        frames == directives(instructions, "RequestHeapFrame")
    IN  IF Len(limits) > 1 \/ Len(prices) > 1 \/ Len(frames) > 1 THEN Err(<< >>)
        ELSE IF Len(frames) = 1 /\ ~heap_frame_valid(frames[1].value) THEN Err(<< >>)
        ELSE Ok([priority |->
                   prioritization(IF Len(prices) = 1 THEN prices[1].value ELSE 0,
                                  IF Len(limits) = 1 THEN limits[1].value
                                                     ELSE DEFAULT_UNITS)])

\* Mutant: a priority of zero counts as no priority.
get_priority_rejects_zero(message) ==
    LET prioritization_fee_details == process_instructions(message)
    IN  IF ~prioritization_fee_details.ok
             \/ prioritization_fee_details.value.priority = 0 THEN None
        ELSE Some(prioritization_fee_details.value.priority)

get_priority(message) ==
    LET prioritization_fee_details == process_instructions(message)
    IN  IF ~prioritization_fee_details.ok THEN None
        ELSE Some(prioritization_fee_details.value.priority)

\* ------------------------------------------------------------- records
\* A packet: its bytes, the sender stake of its meta, and what the parsers
\* outside this file make of the bytes: whether they deserialize to a
\* transaction, whether that transaction sanitizes, the instructions of
\* its message and the digest of the message bytes.
Packet(data, stake, deserializes, sanitizes, message, digest) ==
    [data |-> data, sender_stake |-> stake, deserializes |-> deserializes,
     sanitizes |-> sanitizes, message |-> message, message_hash |-> digest]

deserialize_slice(packet) ==
    IF packet.deserializes THEN Ok("VersionedTransaction")
    ELSE Err(DeserializedPacketError("DeserializationError", 0))

try_from(packet) ==
    IF packet.sanitizes THEN Ok(packet.message)
    ELSE Err(DeserializedPacketError("SanitizeError", 0))

ok_or(option, e) == IF option = None THEN Err(e) ELSE Ok(option[1])

\* Mutant: the priority is determined before the message is located.
new_internal_prioritizes_first(packet, priority) ==
    LET versioned_transaction == deserialize_slice(packet)
        sanitized_transaction == try_from(packet)
        message_bytes == packet_message(packet)
        prio == ok_or(IF priority # None THEN priority
                      ELSE get_priority(sanitized_transaction.value),
                      DeserializedPacketError("PrioritizationFailure", 0))
    IN  IF ~versioned_transaction.ok THEN versioned_transaction
        ELSE IF ~sanitized_transaction.ok THEN sanitized_transaction
        ELSE IF ~prio.ok THEN prio
        ELSE IF ~message_bytes.ok THEN message_bytes
        ELSE Ok([immutable_section |->
                   [message_hash |-> packet.message_hash, priority |-> prio.value,
                    sender_stake |-> packet.sender_stake],
                 forwarded |-> FALSE])

new_internal(packet, priority) ==
    LET versioned_transaction == deserialize_slice(packet)
        sanitized_transaction == try_from(packet)
        message_bytes == packet_message(packet)
        prio == ok_or(IF priority # None THEN priority
                      ELSE get_priority(sanitized_transaction.value),
                      DeserializedPacketError("PrioritizationFailure", 0))
    IN  IF ~versioned_transaction.ok THEN versioned_transaction
        ELSE IF ~sanitized_transaction.ok THEN sanitized_transaction
        ELSE IF ~message_bytes.ok THEN message_bytes
        ELSE IF ~prio.ok THEN prio
        ELSE Ok([immutable_section |->
                   [message_hash |-> packet.message_hash, priority |-> prio.value,
                    sender_stake |-> packet.sender_stake],
                 forwarded |-> FALSE])

new(packet) == new_internal(packet, None)

\* Mutant: the first packet that fails ends the iteration.
deserialize_packets_stops_at_failure(packet_batch, packet_indexes) ==
    LET F[k \in 0..Len(packet_indexes)] ==
            \* what the indexes from position k + 1 on yield
            IF k = Len(packet_indexes) THEN [vec |-> << >>, panicked |-> FALSE]
            ELSE IF packet_indexes[k + 1] >= Len(packet_batch)
                   THEN [vec |-> << >>, panicked |-> TRUE]
            ELSE LET r == new(packet_batch[packet_indexes[k + 1] + 1])
                 IN  IF r.ok THEN [vec |-> << r.value >> \o F[k + 1].vec,
                                   panicked |-> F[k + 1].panicked]
                     ELSE [vec |-> << >>, panicked |-> FALSE]
    IN  F[0]

\* deserialize_packets, its iterator consumed to the end: the records in
\* the order they are yielded; an index behind the end of the batch panics.
RECURSIVE deserialize_packets(_, _)
deserialize_packets(packet_batch, packet_indexes) ==
    IF packet_indexes = << >> THEN [vec |-> << >>, panicked |-> FALSE]
    ELSE LET packet_index == Head(packet_indexes)
         IN  IF packet_index >= Len(packet_batch)
               THEN [vec |-> << >>, panicked |-> TRUE]
               ELSE LET r == new(packet_batch[packet_index + 1])
                        rest == deserialize_packets(packet_batch, Tail(packet_indexes))
                    IN  [vec |-> (IF r.ok THEN << r.value >> ELSE << >>) \o rest.vec,
                         panicked |-> rest.panicked]

\* The packets the batches are made of: one that constructs for every
\* hash, and one for every step of the construction that can fail.
SamplePackets ==
    LET good == [head |-> << 0 >>, len |-> 1]
        heap == << Instruction("RequestHeapFrame", MIN_HEAP_FRAME_BYTES + 1) >>
    IN  {Packet(good, 0, TRUE, TRUE, << >>, h) : h \in Hash}
        \cup {Packet(good, 0, FALSE, TRUE, << >>, 1),
              Packet(good, 0, TRUE, FALSE, << >>, 1),
              Packet([head |-> << >>, len |-> 0], 0, TRUE, TRUE, << >>, 1),
              Packet(good, 0, TRUE, TRUE, heap, 1)}

PacketBatches == UNION {[1..k -> SamplePackets] : k \in 0..MaxPackets}

\* The data short enough to be all prefix.
ShortData == {d \in PacketData : d.len <= MAX_ENCODING_LENGTH}

\* ------------------------------------------------------------- state
VARIABLES
    packet_priority_queue,          \* the heap: elements and allocated capacity
    message_hash_to_transaction,    \* function: resident hash -> DeserializedPacket
    batch_limit,                    \* the capacity given at construction
    panicked,                       \* an unwrap or panic! aborted the process
    last,                           \* the last call: operation, arguments, return value
    pre,                            \* the buffer before the last call
    last_popped,                    \* what the immediately preceding pop_max returned
    input,                          \* the packet given to the record construction
    batch,                          \* the packet batch and indexes given to deserialize_packets
    output                          \* the function last applied to it and its result

vars == << packet_priority_queue, message_hash_to_transaction, batch_limit,
           panicked, last, pre, last_popped, input, batch, output >>

self == Buffer(packet_priority_queue, message_hash_to_transaction, batch_limit)

\* The record of a call; unused fields keep these values.
Call == [op |-> "idle", args |-> << >>, n |-> 0, f |-> << >>, ret |-> None,
         some |-> FALSE, count |-> 0, calls |-> EmptyBag, prev |-> None]

Idle == last.op = "idle"

\* No packet, and no function applied yet.
NoPacket == Packet([head |-> << >>, len |-> 0], 0, FALSE, FALSE, << >>, 1)

NoOutput == [fn |-> "none", result |-> Err(<< >>)]

NoBatch == [packet_batch |-> << >>, packet_indexes |-> << >>]

\* The variables after an operation that ended with buffer b.
Becomes(b, panic) ==
    /\ packet_priority_queue' = b.packet_priority_queue
    /\ message_hash_to_transaction' = b.message_hash_to_transaction
    /\ batch_limit' = b.batch_limit
    /\ panicked' = panic
    /\ pre' = self
    /\ UNCHANGED << input, batch, output >>

\* The state after construction, by with_capacity or by from_iter.
Init ==
    \E cap \in 0..MaxCap : \E iter \in Batches :
      \E o \in from_iter(iter, cap) :
        /\ packet_priority_queue = o.buf.packet_priority_queue
        /\ message_hash_to_transaction = o.buf.message_hash_to_transaction
        /\ batch_limit = o.buf.batch_limit
        /\ panicked = o.panicked
        /\ last = [Call EXCEPT !.op = IF iter = << >> THEN "with_capacity" ELSE "from_iter",
                               !.args = iter, !.n = cap]
        /\ pre = Buffer(Heap(EmptyBag, 0), EmptyMap, 0)
        /\ last_popped = None
        /\ input = NoPacket /\ batch = NoBatch /\ output = NoOutput

Push ==
    /\ Idle /\ ~panicked
    /\ \E e \in DeserializedPacket : \E o \in push(self, e) :
        /\ Becomes(o.buf, o.panicked)
        /\ last' = [Call EXCEPT !.op = "push", !.args = << e >>, !.ret = o.ret]
        /\ last_popped' = None

PopMax ==
    /\ Idle /\ ~panicked
    /\ \E o \in pop_max(self) :
        /\ Becomes(o.buf, o.panicked)
        /\ last' = [Call EXCEPT !.op = "pop_max", !.ret = o.ret, !.prev = last_popped]
        /\ last_popped' = o.ret

Clear ==
    /\ Idle /\ ~panicked
    /\ Becomes(clear(self), FALSE)
    /\ last' = [Call EXCEPT !.op = "clear"]
    /\ last_popped' = None

PopMaxN ==
    /\ Idle /\ ~panicked
    /\ \E n \in 0..MaxN : \E o \in pop_max_n(self, n) :
        /\ Becomes(o.buf, o.panicked)
        /\ last' = [Call EXCEPT !.op = "pop_max_n", !.n = n, !.some = o.some,
                                !.ret = o.vec]
        /\ last_popped' = None

Retain ==
    /\ Idle /\ ~panicked
    /\ \E f \in [DOMAIN message_hash_to_transaction -> Decision] :
      \E o \in retain(self, f) :
        /\ Becomes(o.buf, o.panicked)
        /\ last' = [Call EXCEPT !.op = "retain", !.f = f, !.calls = o.calls]
        /\ last_popped' = None

InsertBatch ==
    /\ Idle /\ ~panicked
    /\ \E items \in Batches : \E o \in insert_batch(self, items) :
        /\ Becomes(o.buf, o.panicked)
        /\ last' = [Call EXCEPT !.op = "insert_batch", !.args = items,
                                !.count = o.num_dropped_packets]
        /\ last_popped' = None

IterMut ==
    /\ Idle /\ ~panicked
    /\ \E g \in [DOMAIN message_hash_to_transaction -> BOOLEAN] :
        /\ Becomes(iter_mut(self, g), FALSE)
        /\ last' = [Call EXCEPT !.op = "iter_mut", !.f = g]
        /\ last_popped' = None

\* The caller takes the returned value; the buffer is ready for the next call.
Return ==
    /\ ~Idle
    /\ last' = Call
    /\ pre' = Buffer(Heap(EmptyBag, 0), EmptyMap, 0)
    /\ UNCHANGED << packet_priority_queue, message_hash_to_transaction,
                    batch_limit, panicked, last_popped, input, batch, output >>

Next ==
    Push \/ InsertBatch \/ PopMax \/ PopMaxN \/ Retain \/ Clear \/ IterMut \/ Return

Spec == Init /\ [][Next]_vars

\* Record construction: a packet arrives and one of the functions of the
\* construction is applied to it; the buffer is not involved.  The packets
\* are every combination over the short data, and every data with the rest
\* of the packet fixed; or a batch of packets arrives with the indexes of
\* the packets to deserialize, an index behind the end of the batch among them.
InitPacket ==
    /\ packet_priority_queue = Heap(EmptyBag, 0)
    /\ message_hash_to_transaction = EmptyMap
    /\ batch_limit = 0
    /\ panicked = FALSE
    /\ last = Call
    /\ pre = Buffer(Heap(EmptyBag, 0), EmptyMap, 0)
    /\ last_popped = None
    /\ \/ \E d \in ShortData, stake \in 0..MaxStake, des \in BOOLEAN, san \in BOOLEAN,
             m \in Messages, h \in Hash :
               input = Packet(d, stake, des, san, m, h) /\ batch = NoBatch
       \/ \E d \in PacketData :
             input = Packet(d, 0, TRUE, TRUE, << >>, 1) /\ batch = NoBatch
       \/ \E packet_batch \in PacketBatches :
           \E k \in 0..MaxIndexes :
           \E packet_indexes \in [1..k -> 0..Len(packet_batch)] :
             /\ input = NoPacket
             /\ batch = [packet_batch |-> packet_batch,
                         packet_indexes |-> packet_indexes]
    /\ output = NoOutput

Applies(fn, result) ==
    /\ output = NoOutput
    /\ output' = [fn |-> fn, result |-> result]
    /\ UNCHANGED << packet_priority_queue, message_hash_to_transaction, batch_limit,
                    panicked, last, pre, last_popped, input, batch >>

PacketMessage == Applies("packet_message", packet_message(input))

GetPriority == Applies("get_priority", get_priority(input.message))

New == Applies("new", new(input))

DeserializePackets ==
    /\ batch # NoBatch
    /\ Applies("deserialize_packets",
               deserialize_packets(batch.packet_batch, batch.packet_indexes))

NextPacket == PacketMessage \/ GetPriority \/ New \/ DeserializePackets

SpecPacket == InitPacket /\ [][NextPacket]_vars

\* Pushes only: a buffer is built empty and envelopes of pairwise distinct
\* hashes are pushed, nothing else; last.args holds the envelopes pushed so
\* far and last.ret the envelopes those pushes returned, in order.
InitPushes ==
    \E cap \in 0..MaxCap : \E b \in with_capacity(cap) :
        /\ packet_priority_queue = b.packet_priority_queue
        /\ message_hash_to_transaction = b.message_hash_to_transaction
        /\ batch_limit = b.batch_limit
        /\ panicked = FALSE
        /\ last = [Call EXCEPT !.op = "pushes", !.n = cap]
        /\ pre = b
        /\ last_popped = None
        /\ input = NoPacket /\ batch = NoBatch /\ output = NoOutput

PushDistinct ==
    /\ ~panicked
    /\ \E e \in DeserializedPacket : \E o \in push(self, e) :
        /\ \A i \in 1..Len(last.args) :
               last.args[i].immutable_section.message_hash
                 # e.immutable_section.message_hash
        /\ Becomes(o.buf, o.panicked)
        /\ last' = [last EXCEPT !.args = Append(@, e), !.ret = @ \o o.ret]
        /\ last_popped' = None

NextPushes == PushDistinct

SpecPushes == InitPushes /\ [][NextPushes]_vars

\* ------------------------------------------------------------- properties
\* The (priority, then sender stake) order, written out.
KeyLeq(a, b) ==
    \/ a.priority < b.priority
    \/ a.priority = b.priority /\ a.sender_stake <= b.sender_stake

\* The envelopes resident in buffer b, and the hashes its heap holds.
Resident(b) ==
    {b.message_hash_to_transaction[h] : h \in DOMAIN b.message_hash_to_transaction}

HeapHashes(b) == {r.message_hash : r \in BagToSet(b.packet_priority_queue.data)}

\* How many elements of the heap of b carry hash h.
HeapCount(b, h) ==
    LET data == b.packet_priority_queue.data
        F[S \in SUBSET BagToSet(data)] ==
            IF S = {} THEN 0
            ELSE LET r == CHOOSE x \in S : TRUE
                 IN  CopiesIn(r, data) + F[S \ {r}]
    IN  F[{r \in BagToSet(data) : r.message_hash = h}]

NewHash == last.args[1].immutable_section.message_hash

\* C1: in every reachable state the heap and the index describe the same
\* records: every hash in the heap is a key of the index, every key of the
\* index is the hash of exactly one heap element, no hash occurs twice in
\* the heap, and len() = |heap| = |index|.
C1_HeapIndexAgree ==
    /\ HeapHashes(self) = DOMAIN message_hash_to_transaction
    /\ \A h \in DOMAIN message_hash_to_transaction : HeapCount(self, h) = 1
    /\ \A h \in HeapHashes(self) : HeapCount(self, h) = 1
    /\ len(self) = BagCardinality(packet_priority_queue.data)
    /\ len(self) = Cardinality(DOMAIN message_hash_to_transaction)

\* C1 witness: a push onto a full buffer of two has evicted a resident.
C1_Witness ==
    /\ last.op = "push" /\ last.ret # None /\ last.ret # last.args
    /\ len(pre) = 2 /\ len(self) = 2

\* C2: a buffer built with capacity c >= 1 never holds more than c envelopes.
C2_LenWithinLimit == batch_limit >= 1 => len(self) <= batch_limit

\* C2 witness: a push onto a buffer that is full although its heap has room
\* allocated beyond the limit (as after retain rebuilt the heap).
C2_Witness ==
    /\ last.op = "push" /\ last.ret # None /\ batch_limit >= 1
    /\ len(pre) = batch_limit /\ len(self) = batch_limit
    /\ capacity(pre) > batch_limit

\* Whether the last call was a push of a hash resident before the call.
PushedDuplicate ==
    last.op = "push" /\ contains_key(pre.message_hash_to_transaction, NewHash)

PushedNew ==
    last.op = "push" /\ ~contains_key(pre.message_hash_to_transaction, NewHash)

\* C3: a push of an envelope whose hash is already resident returns None
\* and leaves heap and index as they were, full buffer or not.
C3_DuplicatePushIsNoOp ==
    PushedDuplicate => last.ret = None /\ self = pre /\ ~panicked

\* C3 witness: a duplicate offered to a full buffer, differing from the
\* resident envelope in sender stake and in its forwarded flag.
C3_Witness ==
    /\ PushedDuplicate /\ len(pre) = batch_limit
    /\ LET first == pre.message_hash_to_transaction[NewHash]
       IN  /\ first.forwarded # last.args[1].forwarded
           /\ first.immutable_section.sender_stake
                # last.args[1].immutable_section.sender_stake

\* C4: a push of a new hash x onto a full buffer returns Some(y), y <= x,
\* y a minimum of the residents plus x; the residents afterwards are the
\* former ones plus x without y, and len() is unchanged.
C4_FullPushReturnsMinimum ==
    (PushedNew /\ len(pre) = pre.batch_limit) =>
        /\ last.ret # None /\ ~panicked
        /\ LET x == last.args[1]
               y == last.ret[1]
           IN  /\ KeyLeq(y.immutable_section, x.immutable_section)
               /\ y \in Resident(pre) \cup {x}
               /\ \A e \in Resident(pre) \cup {x} :
                      KeyLeq(y.immutable_section, e.immutable_section)
               /\ Resident(self) = (Resident(pre) \cup {x}) \ {y}
               /\ len(self) = len(pre)
               /\ y # x => /\ x \in Resident(self) /\ y \notin Resident(self)
                           /\ x.immutable_section \in BagToSet(packet_priority_queue.data)
                           /\ y.immutable_section \notin BagToSet(packet_priority_queue.data)
               /\ y = x => self = pre

\* C4 witness: a resident of equal priority and smaller stake is evicted
\* from a full buffer of two.
C4_Witness ==
    /\ PushedNew /\ len(pre) = 2 /\ pre.batch_limit = 2
    /\ last.ret # None /\ last.ret # last.args
    /\ last.ret[1].immutable_section.priority = last.args[1].immutable_section.priority
    /\ last.ret[1].immutable_section.sender_stake
         < last.args[1].immutable_section.sender_stake

\* C5: a push of a new hash onto a buffer with room returns None, makes the
\* envelope resident in heap and index, and len() grows by exactly one;
\* nothing else changes.
C5_PushWithRoomInserts ==
    (PushedNew /\ len(pre) < pre.batch_limit) =>
        /\ last.ret = None /\ ~panicked
        /\ len(self) = len(pre) + 1
        /\ message_hash_to_transaction
             = map_insert(pre.message_hash_to_transaction, NewHash, last.args[1])
        /\ packet_priority_queue.data
             = pre.packet_priority_queue.data
                 (+) SetToBag({last.args[1].immutable_section})
        /\ Resident(self) = Resident(pre) \cup {last.args[1]}

\* C5 witness: the second envelope enters a buffer of capacity two.
C5_Witness ==
    /\ PushedNew /\ len(pre) = 1 /\ pre.batch_limit = 2 /\ len(self) = 2
    /\ last.args[1].forwarded

\* C6: pop_max on an empty buffer returns None and changes nothing; on a
\* non-empty buffer it returns the index's envelope of a record no resident
\* record is greater than, removes that record from heap and index, and
\* len() drops by one.
C6_PopMaxReturnsMaximum ==
    last.op = "pop_max" =>
        /\ ~panicked
        /\ is_empty(pre) => last.ret = None /\ self = pre
        /\ ~is_empty(pre) =>
             /\ last.ret # None
             /\ LET y == last.ret[1]
                    h == y.immutable_section.message_hash
                IN  /\ contains_key(pre.message_hash_to_transaction, h)
                    /\ y = pre.message_hash_to_transaction[h]
                    /\ \A e \in Resident(pre) :
                           KeyLeq(e.immutable_section, y.immutable_section)
                    /\ message_hash_to_transaction
                         = map_remove(pre.message_hash_to_transaction, h)
                    /\ packet_priority_queue.data
                         = pre.packet_priority_queue.data
                             (-) SetToBag({y.immutable_section})
                    /\ len(self) = len(pre) - 1

\* C6 witness: of two residents of equal priority the one with the larger
\* stake is popped, carrying the forwarded flag stored in the index.
C6_Witness ==
    /\ last.op = "pop_max" /\ len(pre) = 2 /\ last.ret # None
    /\ last.ret[1].forwarded
    /\ \E e \in Resident(pre) :
          /\ e.immutable_section.priority = last.ret[1].immutable_section.priority
          /\ e.immutable_section.sender_stake
               < last.ret[1].immutable_section.sender_stake

\* C7: of two consecutive pop_max calls the second returns an envelope of
\* no greater priority and, at equal priority, of no greater sender stake.
C7_PopsNonIncreasing ==
    (last.op = "pop_max" /\ last.prev # None /\ last.ret # None) =>
        LET first == last.prev[1].immutable_section
            second == last.ret[1].immutable_section
        IN  /\ second.priority <= first.priority
            /\ second.priority = first.priority
                 => second.sender_stake <= first.sender_stake

\* C7 witness: two consecutive pops of equal priority, the second of
\* strictly smaller stake.
C7_Witness ==
    /\ last.op = "pop_max" /\ last.prev # None /\ last.ret # None
    /\ last.ret[1].immutable_section.priority
         = last.prev[1].immutable_section.priority
    /\ last.ret[1].immutable_section.sender_stake
         < last.prev[1].immutable_section.sender_stake

\* What k successive pop_max calls on b leave and return, none of them
\* finding the buffer empty.
RECURSIVE SuccessivePops(_, _)
SuccessivePops(b, k) ==
    IF k = 0 THEN {[buf |-> b, vec |-> << >>]}
    ELSE UNION {{[buf |-> r.buf, vec |-> o.ret \o r.vec]
                 : r \in SuccessivePops(o.buf, k - 1)}
                : o \in {x \in pop_max(b) : x.ret # None /\ ~x.panicked}}

\* C8: pop_max_n(n) returns None on an empty buffer, whatever n; otherwise
\* Some(v) with |v| = min(len(), n), v in non-increasing (priority, stake)
\* order and what |v| successive pop_max calls return, len() dropping by
\* |v|; n = 0 on a non-empty buffer gives an empty v and changes nothing.
C8_PopMaxN ==
    last.op = "pop_max_n" =>
        /\ ~panicked
        /\ is_empty(pre) => ~last.some /\ last.ret = << >> /\ self = pre
        /\ ~is_empty(pre) =>
             LET v == last.ret IN
             /\ last.some
             /\ Len(v) = IF len(pre) <= last.n THEN len(pre) ELSE last.n
             /\ \A i, j \in 1..Len(v) :
                    i < j => KeyLeq(v[j].immutable_section, v[i].immutable_section)
             /\ [buf |-> self, vec |-> v] \in SuccessivePops(pre, Len(v))
             /\ len(self) = len(pre) - Len(v)
             /\ last.n = 0 => v = << >> /\ self = pre

\* C8 witness: pop_max_n(2) empties a buffer of two, the greater key first.
C8_Witness ==
    /\ last.op = "pop_max_n" /\ last.n = 2 /\ len(pre) = 2 /\ last.some
    /\ Len(last.ret) = 2 /\ is_empty(self)
    /\ ~KeyLeq(last.ret[1].immutable_section, last.ret[2].immutable_section)

\* The envelopes a retain call keeps, as its predicate left them.
Retained ==
    {[pre.message_hash_to_transaction[h] EXCEPT !.forwarded = last.f[h].forwarded]
     : h \in {k \in DOMAIN pre.message_hash_to_transaction : last.f[k].keep}}

\* C9: retain calls its predicate exactly once on each envelope resident at
\* the call and on nothing else; afterwards exactly the envelopes it
\* answered true for are resident, heap and index agree, and a following
\* pop_max returns a maximum of them.
C9_Retain ==
    last.op = "retain" =>
        /\ ~panicked
        /\ last.calls = SetToBag(Resident(pre))
        /\ Resident(self) = Retained
        /\ DOMAIN message_hash_to_transaction
             = {e.immutable_section.message_hash : e \in Retained}
        /\ \A h \in DOMAIN message_hash_to_transaction :
               message_hash_to_transaction[h].immutable_section.message_hash = h
        /\ packet_priority_queue.data
             = SetToBag({e.immutable_section : e \in Retained})
        /\ \A o \in pop_max(self) :
               IF Retained = {} THEN o.ret = None
               ELSE /\ o.ret # None /\ o.ret[1] \in Retained
                    /\ \A e \in Retained :
                           KeyLeq(e.immutable_section, o.ret[1].immutable_section)

\* C9 witness: of two residents the greater is dropped and the lesser kept
\* with its forwarded flag changed.
C9_Witness ==
    /\ last.op = "retain" /\ len(pre) = 2 /\ len(self) = 1
    /\ \E h \in DOMAIN message_hash_to_transaction :
          /\ message_hash_to_transaction[h].forwarded
               # pre.message_hash_to_transaction[h].forwarded
          /\ \E e \in Resident(pre) :
                ~KeyLeq(e.immutable_section,
                        message_hash_to_transaction[h].immutable_section)

\* What pushing the items in order, one push call each, leaves; with the
\* number of pushes that returned Some and the number of items whose hash
\* was resident when they were offered.
RECURSIVE PushInOrder(_, _)
PushInOrder(b, items) ==
    IF items = << >> THEN {[buf |-> b, somes |-> 0, duplicates |-> 0]}
    ELSE UNION {{[buf |-> r.buf,
                  somes |-> r.somes + (IF o.ret = None THEN 0 ELSE 1),
                  duplicates |-> r.duplicates
                      + (IF contains_key(b.message_hash_to_transaction,
                                         Head(items).immutable_section.message_hash)
                           THEN 1 ELSE 0)]
                 : r \in PushInOrder(o.buf, Tail(items))}
                : o \in {x \in push(b, Head(items)) : ~x.panicked}}

\* C10: insert_batch leaves the buffer as pushing each item in order does
\* and returns the number of those pushes that returned Some; duplicates
\* are not counted: offered = growth of len() + returned count + duplicates.
C10_InsertBatch ==
    last.op = "insert_batch" =>
        LET same == {r \in PushInOrder(pre, last.args) :
                        r.buf = self /\ r.somes = last.count}
        IN  /\ ~panicked
            /\ same # {}
            /\ \A r \in same :
                   Len(last.args) = (len(self) - len(pre)) + last.count + r.duplicates

\* C10 witness: of two items offered to a full buffer one is handed back or
\* evicts a resident and the other is a duplicate.
C10_Witness ==
    /\ last.op = "insert_batch" /\ Len(last.args) = 2 /\ last.count = 1
    /\ len(pre) = batch_limit /\ batch_limit = 2
    /\ \E r \in PushInOrder(pre, last.args) :
          r.buf = self /\ r.somes = 1 /\ r.duplicates = 1

\* C11: capacity() returns the capacity c given at construction in every
\* reachable state: starting from a buffer whose capacity() is c, none of
\* push, insert_batch, pop_max, pop_max_n, clear and retain changes what
\* capacity() returns, and it stays the bound push uses for "full".
C11_CapacityIsConstructionCapacity ==
    (last.op \in {"push", "insert_batch", "pop_max", "pop_max_n", "clear", "retain"}
       /\ capacity(pre) = pre.batch_limit) =>
        /\ batch_limit = pre.batch_limit
        /\ capacity(self) = batch_limit

\* C12: when the buffer is full, a push of a record that is not resident
\* and whose (priority, stake) key is less than or equal to the key of every
\* resident returns Some of the incoming envelope itself and leaves heap and
\* index unchanged; an incoming record of a key equal to the minimum's is
\* handed back, not exchanged for the resident minimum.
C12_FullPushRejectsSmallest ==
    (PushedNew /\ len(pre) = pre.batch_limit
       /\ \A e \in Resident(pre) :
              KeyLeq(last.args[1].immutable_section, e.immutable_section)) =>
        /\ last.ret = Some(last.args[1]) /\ ~panicked
        /\ self = pre

\* C12 witness: a full buffer of two is offered a new record whose key
\* equals the key of its minimum.
C12_Witness ==
    /\ PushedNew /\ len(pre) = 2 /\ pre.batch_limit = 2
    /\ last.ret = Some(last.args[1])
    /\ \E e \in Resident(pre) :
          /\ cmp(e.immutable_section, last.args[1].immutable_section) = 0
          /\ \A d \in Resident(pre) : KeyLeq(e.immutable_section, d.immutable_section)

\* What a push of e onto b is seen to do: its return value and the
\* envelopes resident afterwards.
PushSeen(b, e) == {[ret |-> o.ret, resident |-> Resident(o.buf)] : o \in push(b, e)}

\* C13: after clear() is_empty() is true, len() is 0, heap and index are
\* empty and capacity() is what it was before the call; the buffer then
\* behaves like a freshly constructed one: every push does what it does on
\* a new buffer of the same capacity, and an envelope that was resident
\* before clear is accepted by a later push.
C13_Clear ==
    last.op = "clear" =>
        /\ ~panicked
        /\ is_empty(self) /\ len(self) = 0
        /\ packet_priority_queue.data = EmptyBag
        /\ message_hash_to_transaction = EmptyMap
        /\ capacity(self) = capacity(pre)
        /\ batch_limit = pre.batch_limit
        /\ \A e \in DeserializedPacket : \A fresh \in with_capacity(batch_limit) :
               PushSeen(self, e) = PushSeen(fresh, e)
        /\ \A e \in Resident(pre) : \A o \in push(self, e) :
               o.ret = None /\ ~o.panicked /\ Resident(o.buf) = {e}

\* C13 witness: clear on a full buffer of two.
C13_Witness ==
    /\ last.op = "clear" /\ len(pre) = 2 /\ pre.batch_limit = 2
    /\ is_empty(self) /\ capacity(self) = capacity(pre)

\* C14: from_iter(seq, c) produces exactly the states that with_capacity(c)
\* followed by a push of each element of seq in order, return values
\* discarded, produces: same residents, same heap, same capacity bound.
C14_FromIterIsPushes ==
    last.op = "from_iter" =>
        LET pushed == UNION {{r.buf : r \in PushInOrder(b, last.args)}
                             : b \in with_capacity(last.n)}
        IN  /\ ~panicked
            /\ self \in pushed
            /\ pushed = {o.buf : o \in from_iter(last.args, last.n)}
            /\ batch_limit = last.n

\* C14 witness: from_iter of two distinct records into capacity one, where
\* the second has evicted the first.
C14_Witness ==
    /\ last.op = "from_iter" /\ Len(last.args) = 2 /\ last.n = 1
    /\ Resident(self) = {last.args[2]}
    /\ last.args[1].immutable_section.message_hash
         # last.args[2].immutable_section.message_hash

\* The envelopes resident before the last call that are not resident after
\* it, and the hashes resident before it that are not resident after it.
LeftEnvelopes == Resident(pre) \ Resident(self)

LeftHashes ==
    DOMAIN pre.message_hash_to_transaction \ DOMAIN message_hash_to_transaction

\* The envelopes of a sequence.
Range(v) == {v[i] : i \in DOMAIN v}

\* C15: a resident envelope leaves the buffer only by being returned by push
\* as the evicted minimum, by being returned by pop_max or pop_max_n, by
\* retain's predicate answering false for it, or by clear; no operation
\* loses a resident envelope otherwise (insert_batch loses at most as many
\* as it reports dropped by its pushes), and no envelope handed back by push
\* or a pop is resident afterwards.
C15_LeavesOnlyWhenHandedBack ==
    /\ last.op = "push" =>
          /\ LeftEnvelopes \subseteq Range(last.ret)
          /\ \A e \in Range(last.ret) :
                 /\ e \notin Resident(self)
                 /\ ~contains_key(message_hash_to_transaction,
                                  e.immutable_section.message_hash)
                 /\ e.immutable_section \notin BagToSet(packet_priority_queue.data)
    /\ last.op \in {"pop_max", "pop_max_n"} =>
          /\ LeftEnvelopes = Range(last.ret)
          /\ \A e \in Range(last.ret) :
                 /\ ~contains_key(message_hash_to_transaction,
                                  e.immutable_section.message_hash)
                 /\ e.immutable_section \notin BagToSet(packet_priority_queue.data)
    /\ last.op = "retain" =>
          LeftHashes = {h \in DOMAIN pre.message_hash_to_transaction : ~last.f[h].keep}
    /\ last.op = "insert_batch" => Cardinality(LeftEnvelopes) <= last.count
    /\ last.op \notin {"push", "pop_max", "pop_max_n", "retain", "insert_batch", "clear"} =>
          LeftHashes = {}

\* C15 witness: a push onto a full buffer of two has handed back a former
\* resident, which is no longer resident, and the other resident stayed.
C15_Witness ==
    /\ last.op = "push" /\ len(pre) = 2 /\ last.ret # None
    /\ last.ret[1] \in Resident(pre)
    /\ LeftEnvelopes = {last.ret[1]}
    /\ Cardinality(Resident(pre) \cap Resident(self)) = 1

\* C18: no sequence of public operations (retain's predicate changing
\* nothing but forwarded) reaches a fatal path: pop_max and push_pop_min
\* never unwrap a missing index entry, pop_max_n never unwraps an empty pop,
\* retain never meets a heap record without an index entry: no call has
\* ended on such a path and every record of the heap has its index entry.
C18_NoFatalPath ==
    /\ ~panicked
    /\ \A r \in BagToSet(packet_priority_queue.data) :
           contains_key(message_hash_to_transaction, r.message_hash)
    /\ \A o \in pop_max(self) : ~o.panicked
    /\ \A o \in pop_max_n(self, MaxN) : ~o.panicked

\* C18 witness: retain has looked up both records of a full buffer of two,
\* kept both, and the buffer was rebuilt.
C18_Witness ==
    /\ last.op = "retain" /\ len(pre) = 2 /\ len(self) = 2 /\ ~panicked
    /\ \A h \in DOMAIN last.f : last.f[h].keep

\* The hashes resident before and after the last call.
Stayed ==
    DOMAIN pre.message_hash_to_transaction \cap DOMAIN message_hash_to_transaction

\* Whether the last call left the forwarded flag of every envelope that
\* stayed resident as it was (an item of insert_batch may have taken the
\* place of an evicted envelope of its hash).
ForwardedUnchanged ==
    \A h \in Stayed :
        \/ message_hash_to_transaction[h].forwarded
             = pre.message_hash_to_transaction[h].forwarded
        \/ /\ last.op = "insert_batch"
           /\ message_hash_to_transaction[h] \in Range(last.args)

\* Whether a retain stored the flag its predicate left on every envelope it
\* retained, and a following pop_max or eviction hands that envelope back
\* as stored; and whether every envelope a push or pop returned is an
\* envelope as the index held it (or the incoming one).
ChangeStoredAndSeen ==
    /\ last.op = "retain" =>
          /\ \A h \in Stayed :
                 message_hash_to_transaction[h]
                   = [pre.message_hash_to_transaction[h]
                        EXCEPT !.forwarded = last.f[h].forwarded]
          /\ \A o \in pop_max(self) : Range(o.ret) \subseteq Resident(self)
          /\ \A e \in DeserializedPacket : \A o \in push(self, e) :
                 Range(o.ret) \subseteq Resident(self) \cup {e}
    /\ last.op \in {"pop_max", "pop_max_n"} => Range(last.ret) \subseteq Resident(pre)
    /\ last.op = "push" => Range(last.ret) \subseteq Resident(pre) \cup Range(last.args)

\* C19 as stated: the forwarded flag of a resident envelope is changed only
\* by retain's predicate: every other call leaves the flag of every
\* envelope that stays resident unchanged; a change the predicate makes to
\* an envelope it retains is stored in the index and is the value seen when
\* the envelope is later returned by pop_max or by an eviction.
C19_OnlyRetainChangesForwarded ==
    /\ last.op # "retain" => ForwardedUnchanged
    /\ ChangeStoredAndSeen

\* C19 amended: the forwarded flag of a resident envelope is changed only
\* by retain's predicate or by the caller through iter_mut, which changes
\* nothing else; push, insert_batch, pop_max, pop_max_n and clear leave the
\* flag of every envelope that stays resident unchanged; a change made by
\* the predicate is stored and seen as stated.
C19_RetainOrIterMutChangesForwarded ==
    /\ last.op \notin {"retain", "iter_mut"} => ForwardedUnchanged
    /\ last.op = "iter_mut" =>
          /\ message_hash_to_transaction
               = [h \in DOMAIN pre.message_hash_to_transaction |->
                    [pre.message_hash_to_transaction[h] EXCEPT !.forwarded = last.f[h]]]
          /\ packet_priority_queue = pre.packet_priority_queue
          /\ batch_limit = pre.batch_limit
    /\ ChangeStoredAndSeen

\* C19 witness: retain kept both envelopes of a buffer of two and its
\* predicate set the forwarded flag of one of them, leaving the other's.
C19_Witness ==
    /\ last.op = "retain" /\ len(pre) = 2 /\ len(self) = 2
    /\ \E h, k \in Stayed :
          /\ ~pre.message_hash_to_transaction[h].forwarded
          /\ message_hash_to_transaction[h].forwarded
          /\ message_hash_to_transaction[k].forwarded
               = pre.message_hash_to_transaction[k].forwarded

\* C20: packet_message locates the message at offset n * 64 + prefix_size,
\* (n, prefix_size) being the decoded short-u16 signature count and the
\* length of its encoding: it returns the slice from that offset to the end
\* of the data when the offset is at most the data length (an empty slice
\* when equal), ShortVecError when the prefix cannot be decoded and
\* SignatureOverflowed(prefix_size) when the offset exceeds the data
\* length; the slice it returns lies within the data.
C20_PacketMessage ==
    output.fn = "packet_message" =>
        LET decoded == decode_shortu16_len(input.data.head)
            n == decoded.value[1]
            prefix_size == decoded.value[2]
            offset == n * 64 + prefix_size
        IN  /\ ~decoded.ok =>
                 output.result = Err(DeserializedPacketError("ShortVecError", 0))
            /\ (decoded.ok /\ offset <= input.data.len) =>
                 /\ output.result = Ok([start |-> offset, end |-> input.data.len])
                 /\ output.result.value.start <= output.result.value.end
                 /\ output.result.value.end <= input.data.len
            /\ (decoded.ok /\ offset > input.data.len) =>
                 output.result
                   = Err(DeserializedPacketError("SignatureOverflowed", prefix_size))

\* C20 witness: one signature and a prefix of one byte in a packet of 65
\* bytes: the message is the empty slice at the end of the data.
C20_Witness ==
    /\ output.fn = "packet_message" /\ input.data.len = 65
    /\ input.data.head[1] = 1
    /\ output.result = Ok([start |-> 65, end |-> 65])

\* The message carries no compute-unit-price directive.
NoPriceDirective(message) == directives(message, "SetComputeUnitPrice") = << >>

PrioritizationFailure == Err(DeserializedPacketError("PrioritizationFailure", 0))

\* C17: a message with no compute-unit-price directive, such as one whose
\* only compute-budget instruction is a valid RequestHeapFrame of 32 KiB,
\* gets priority 0 and is not rejected; get_priority returns no priority,
\* and construction fails with PrioritizationFailure, only when the
\* compute-budget processing of the instructions fails.
C17_NoPriceIsPriorityZero ==
    LET processed == process_instructions(input.message)
    IN  /\ output.fn = "get_priority" =>
              /\ (NoPriceDirective(input.message) /\ processed.ok) =>
                     output.result = Some(0)
              /\ input.message = << Instruction("RequestHeapFrame", 32 * 1024) >> =>
                     output.result = Some(0)
              /\ output.result = None <=> ~processed.ok
        /\ output.fn = "new" =>
              /\ output.result = PrioritizationFailure => ~processed.ok
              /\ (output.result.ok /\ NoPriceDirective(input.message)) =>
                     output.result.value.immutable_section.priority = 0

\* C17 witness: get_priority of the message that only requests a heap
\* frame of 32 KiB is Some(0).
C17_Witness ==
    /\ output.fn = "get_priority"
    /\ input.message = << Instruction("RequestHeapFrame", 32 * 1024) >>
    /\ output.result = Some(0)

\* C16: DeserializedPacket::new either returns a complete record with
\* forwarded = false or the error of the first failing step and no record,
\* the steps being transaction deserialization, sanitization, location of
\* the message slice (ShortVecError / SignatureOverflowed) and
\* prioritization (PrioritizationFailure), in this order; the error of a
\* later step is never reported when an earlier step fails.
C16_FirstErrorOrCompleteRecord ==
    output.fn = "new" =>
        LET r == output.result
            located == packet_message(input)
            priority == get_priority(input.message)
        IN  /\ ~input.deserializes =>
                 r = Err(DeserializedPacketError("DeserializationError", 0))
            /\ (input.deserializes /\ ~input.sanitizes) =>
                 r = Err(DeserializedPacketError("SanitizeError", 0))
            /\ (input.deserializes /\ input.sanitizes /\ ~located.ok) =>
                 /\ r = located
                 /\ r.error.kind \in {"ShortVecError", "SignatureOverflowed"}
            /\ (input.deserializes /\ input.sanitizes /\ located.ok /\ priority = None) =>
                 r = PrioritizationFailure
            /\ (input.deserializes /\ input.sanitizes /\ located.ok /\ priority # None) =>
                 r = Ok([immutable_section |->
                           [message_hash |-> input.message_hash,
                            priority |-> priority[1],
                            sender_stake |-> input.sender_stake],
                         forwarded |-> FALSE])
            /\ ~r.ok => r.value = << >>

\* C16 witness: the packet deserializes, but sanitization, the location of
\* the message and prioritization would all fail: SanitizeError is returned.
C16_Witness ==
    /\ output.fn = "new"
    /\ input.deserializes /\ ~input.sanitizes
    /\ ~packet_message(input).ok /\ get_priority(input.message) = None
    /\ output.result = Err(DeserializedPacketError("SanitizeError", 0))

\* What construction makes of each listed packet, in the order of the list.
Constructed ==
    [i \in 1..Len(batch.packet_indexes) |->
        new(batch.packet_batch[batch.packet_indexes[i] + 1])]

\* Every listed index names a packet of the batch.
IndexesInBatch ==
    \A i \in 1..Len(batch.packet_indexes) :
        batch.packet_indexes[i] < Len(batch.packet_batch)

\* C21: deserialize_packets yields, in the order of packet_indexes, exactly
\* one record for each listed packet whose construction succeeds and
\* nothing for each one that fails; a failing packet neither stops nor
\* affects the processing of the packets after it.
C21_DeserializePackets ==
    (output.fn = "deserialize_packets" /\ IndexesInBatch) =>
        LET succeeded == SelectSeq(Constructed, LAMBDA r : r.ok)
        IN  /\ ~output.result.panicked
            /\ output.result.vec = [j \in 1..Len(succeeded) |-> succeeded[j].value]
            /\ \A i \in 1..Len(batch.packet_indexes) :
                   \* what follows position i is yielded as if the list began there
                   SubSeq(output.result.vec,
                          Len(SelectSeq(SubSeq(Constructed, 1, i), LAMBDA r : r.ok)) + 1,
                          Len(output.result.vec))
                     = deserialize_packets(batch.packet_batch,
                                           SubSeq(batch.packet_indexes, i + 1,
                                                  Len(batch.packet_indexes))).vec

\* C21 witness: the batch holds a packet that constructs and, behind it, one
\* that fails; the failing one is listed first and the other twice after
\* it: its record is yielded twice.
C21_Witness ==
    /\ output.fn = "deserialize_packets" /\ IndexesInBatch
    /\ batch.packet_indexes = << 1, 0, 0 >>
    /\ ~Constructed[1].ok /\ Constructed[2].ok
    /\ output.result.vec = << Constructed[2].value, Constructed[3].value >>

\* The (priority, stake) key of an envelope, the order of keys, and the
\* multiset of the keys of a set of envelopes.
KeyOf(e) == << e.immutable_section.priority, e.immutable_section.sender_stake >>

KeyPairLeq(k, r) == k[1] < r[1] \/ (k[1] = r[1] /\ k[2] <= r[2])

RECURSIVE KeyBag(_)
KeyBag(S) ==
    IF S = {} THEN EmptyBag
    ELSE LET e == CHOOSE x \in S : TRUE
         IN  SetToBag({KeyOf(e)}) (+) KeyBag(S \ {e})

\* C22: after pushing a sequence of records of pairwise distinct hashes
\* into an empty buffer of capacity c, nothing else in between, the
\* multiset of resident keys is the multiset of the min(c, length) largest
\* keys of the sequence, and every envelope those pushes returned has a key
\* less than or equal to every resident key.
C22_KeepsLargestKeys ==
    last.op = "pushes" =>
        LET pushed == Range(last.args)
            resident == KeyBag(Resident(self))
            offered == KeyBag(pushed)
            rest == offered (-) resident
        IN  /\ ~panicked /\ batch_limit = last.n
            /\ BagCardinality(resident) = Min(last.n, Len(last.args))
            /\ resident \sqsubseteq offered
            /\ \A k \in BagToSet(rest) : \A r \in BagToSet(resident) : KeyPairLeq(k, r)
            /\ \A i \in 1..Len(last.ret) : \A r \in Resident(self) :
                   KeyLeq(last.ret[i].immutable_section, r.immutable_section)
            /\ Resident(self) \cup Range(last.ret) = pushed
            /\ Resident(self) \cap Range(last.ret) = {}

\* C22 witness: three records pushed into capacity two; the third evicted
\* the first, whose key is smaller than both resident keys.
C22_Witness ==
    /\ last.op = "pushes" /\ last.n = 2 /\ Len(last.args) = 3
    /\ last.ret = << last.args[1] >>
    /\ Resident(self) = {last.args[2], last.args[3]}
    /\ Resident(pre) = {last.args[1], last.args[2]}
    /\ \A r \in Resident(self) : ~KeyPairLeq(KeyOf(r), KeyOf(last.args[1]))


\* ------------------------------------------------- pushing a hash again
\* The envelopes the last call took out of the buffer, as its caller saw
\* them: handed back by a pop, evicted by push, refused by retain's
\* predicate, or resident when clear was called.
Departed ==
    CASE last.op \in {"pop_max", "pop_max_n"} -> Range(last.ret)
      [] last.op = "push" -> Range(last.ret) \ {last.args[1]}
      [] last.op = "retain" ->
            {e \in Resident(pre) : ~last.f[e.immutable_section.message_hash].keep}
      [] last.op = "clear" -> Resident(pre)
      [] OTHER -> {}

\* Right after a call that took envelopes out, an envelope with the hash of
\* one of them is pushed; output keeps the pushed envelope, what push
\* returned and the buffer between the two calls, last and pre keep the
\* first call.
PushAgain ==
    /\ ~Idle /\ ~panicked /\ output = NoOutput
    /\ \E x \in Departed : \E e \in DeserializedPacket :
        /\ e.immutable_section.message_hash = x.immutable_section.message_hash
        /\ \E o \in push(self, e) :
            /\ packet_priority_queue' = o.buf.packet_priority_queue
            /\ message_hash_to_transaction' = o.buf.message_hash_to_transaction
            /\ batch_limit' = o.buf.batch_limit
            /\ panicked' = o.panicked
            /\ output' = [fn |-> "push",
                          result |-> [arg |-> e, ret |-> o.ret, mid |-> self]]
    /\ UNCHANGED << last, pre, last_popped, input, batch >>

\* The caller takes what the calls returned.
ReturnAgain ==
    /\ ~Idle
    /\ last' = Call
    /\ pre' = Buffer(Heap(EmptyBag, 0), EmptyMap, 0)
    /\ output' = NoOutput
    /\ UNCHANGED << packet_priority_queue, message_hash_to_transaction,
                    batch_limit, panicked, last_popped, input, batch >>

NextAgain ==
    Push \/ PopMax \/ PopMaxN \/ Retain \/ Clear \/ PushAgain \/ ReturnAgain

SpecAgain == Init /\ [][NextAgain]_vars

\* C23: deduplication considers resident hashes only.  When an envelope with
\* the hash of an envelope that a pop, an eviction by push, retain or clear
\* has just taken out is pushed, the hash was not resident and the push
\* treats the envelope as new: with room it is stored and None is returned;
\* on a full buffer it is either handed back itself or stored in exchange for
\* a resident that is handed back; it is never dropped with None.  Pushing
\* back the very envelope pop_max returned gives None and the resident set
\* and heap contents of before the pop.
C23_DepartedHashIsNew ==
    output.fn = "push" =>
        LET e == output.result.arg
            ret == output.result.ret
            mid == output.result.mid
            stored ==
                /\ e \in Resident(self)
                /\ CopiesIn(e.immutable_section, packet_priority_queue.data) = 1
        IN  /\ ~panicked
            /\ ~contains_key(mid.message_hash_to_transaction,
                             e.immutable_section.message_hash)
            /\ e.immutable_section \notin BagToSet(mid.packet_priority_queue.data)
            /\ IF len(mid) < mid.batch_limit
                 THEN /\ ret = None /\ stored
                      /\ Resident(self) = Resident(mid) \cup {e}
                 ELSE \/ ret = Some(e) /\ Resident(self) = Resident(mid)
                      \/ /\ ret # None /\ ret[1] \in Resident(mid) /\ stored
                         /\ Resident(self) = (Resident(mid) \ {ret[1]}) \cup {e}
            /\ (last.op = "pop_max" /\ last.ret = Some(e)) =>
                  /\ ret = None
                  /\ Resident(self) = Resident(pre)
                  /\ packet_priority_queue.data = pre.packet_priority_queue.data
                  /\ len(self) = len(pre)

\* C23 witness: pop_max took the maximum out of a full buffer of two, the
\* envelope was pushed back, push returned None and both envelopes are
\* resident as before the pop.
C23_Witness ==
    /\ output.fn = "push" /\ last.op = "pop_max"
    /\ len(pre) = 2 /\ pre.batch_limit = 2
    /\ last.ret = Some(output.result.arg)
    /\ len(output.result.mid) = 1
    /\ output.result.ret = None
    /\ Resident(self) = Resident(pre) /\ len(self) = 2


\* The buffer #[derive(Default)] gives: an empty heap without allocation, an
\* empty index and the limit 0.
Default == Buffer(Heap(EmptyBag, 0), EmptyMap, 0)

\* C24: a buffer whose limit is 0, made by Default or by with_capacity(0),
\* never holds anything: heap and index stay empty and len() stays 0, no
\* operation panics, every push returns Some of the incoming envelope and
\* leaves the buffer as it was, insert_batch reports every envelope dropped,
\* and the pops return None.
C24_LimitZeroHoldsNothing ==
    /\ Default \in with_capacity(0)
    /\ batch_limit = 0 =>
          /\ ~panicked
          /\ len(self) = 0 /\ is_empty(self)
          /\ packet_priority_queue.data = EmptyBag
          /\ message_hash_to_transaction = EmptyMap
          /\ pre.batch_limit = 0 /\ len(pre) = 0
          /\ last.op = "push" => last.ret = Some(last.args[1]) /\ self = pre
          /\ last.op = "insert_batch" => last.count = Len(last.args)
          /\ last.op = "from_iter" => last.n = 0
          /\ last.op = "pop_max" => last.ret = None
          /\ last.op = "pop_max_n" => ~last.some /\ last.ret = << >>

\* C24 witness: an envelope was pushed onto the Default buffer; it came back
\* as Some and the buffer is still the Default buffer.
C24_Witness ==
    /\ last.op = "push" /\ pre = Default /\ batch_limit = 0
    /\ last.ret = Some(last.args[1])
    /\ self = Default

====
